---- MODULE Spec2Model ----
(***************************************************************************)
(* PFTSAutoOverlap (pcdsdevices/lasers/autooverlap.py) as a state machine. *)
(*                                                                         *)
(* Delays are exact rationals <<n, d>> counted in ticks, Unit ticks being  *)
(* the 1e-12 s the source hard-codes as the half width of the error scan.  *)
(* d = 0 stands for the non-finite floats: <<1,0>> = +inf, <<-1,0>> = -inf,*)
(* <<0,0>> = nan.  Arithmetic is exact: rounding of the floats is not      *)
(* modelled.                                                               *)
(*                                                                         *)
(* Averaged waveforms are held as sample-wise SUMS over the navg readings  *)
(* (the mean times navg) and integrated errors as the trapezoid integral   *)
(* times 2 * navg * (baseline samples); every comparison the code makes on *)
(* them is made here on both sides times the same positive factor.         *)
(*                                                                         *)
(* Spec is the class at work; SpecEst and SpecAvg call _find_zero_error,   *)
(* _average_signal and _test_monitor on their own; SpecSlits is SlitsBase  *)
(* (pcdsdevices/slits.py): move, remove and the lightpath states;          *)
(* SpecBeckhoff is BeckhoffSlits: the queued GO and the done fan-out.      *)
(***************************************************************************)
EXTENDS Integers, Sequences, FiniteSets, TLC

\* ------------------------------------------------------------ bounds
Unit == 2          \* ticks per 1e-12 s
MaxStep == 3       \* largest coarse stepsize, in ticks
MaxNavg == 2       \* largest number of readings averaged
WaveLen == 3       \* samples in one reading of a digitizer channel
Thr == 2           \* the threshold, in ADC counts
nbaseline == 1     \* leading samples of the error waveform taken as baseline
MaxCurve == 7      \* longest error curve handed to _find_zero_error alone
MaxCalls == 2      \* calls of _average_signal made in a row on one source
MaxWidth == 4      \* widest slit opening
MaxPending == 2    \* scheduled exec_move writes waiting to run

\* ------------------------------------------------------------ program constants
spread == 3        \* points on each side of the steepest gradient
MaxTries == 3      \* attempts of auto_overlap's optimization loop

\* ------------------------------------------------------------ rationals
Abs(n) == IF n < 0 THEN -n ELSE n
Sgn(n) == IF n < 0 THEN -1 ELSE IF n > 0 THEN 1 ELSE 0

RECURSIVE Gcd(_, _)
Gcd(a, b) == IF b = 0 THEN a ELSE Gcd(b, a % b)

\* <<n, d>> in lowest terms with d >= 0
Norm(q) ==
    IF q[2] = 0 THEN <<Sgn(q[1]), 0>>
    ELSE LET s == IF q[2] < 0 THEN -1 ELSE 1
             g == Gcd(Abs(q[1]), Abs(q[2]))
         IN  <<(s * q[1]) \div g, (s * q[2]) \div g>>

Q(n) == <<n, 1>>
RAdd(a, b) == Norm(<<a[1] * b[2] + b[1] * a[2], a[2] * b[2]>>)
RNeg(a) == <<-a[1], a[2]>>
RSub(a, b) == RAdd(a, RNeg(b))
RMul(a, b) == Norm(<<a[1] * b[1], a[2] * b[2]>>)
RDiv(a, b) == Norm(<<a[1] * b[2], a[2] * b[1]>>)
\* float comparison: false whenever a side is nan
RLt(a, b) == a[1] * b[2] < b[1] * a[2]
RGt(a, b) == RLt(b, a)
RLe(a, b) == a # <<0, 0>> /\ b # <<0, 0>> /\ ~RLt(b, a)
IsFinite(a) == a[2] # 0

RECURSIVE SumSeq(_)
SumSeq(s) == IF s = <<>> THEN 0 ELSE Head(s) + SumSeq(Tail(s))

RECURSIVE RSum(_)
RSum(s) == IF s = <<>> THEN Q(0) ELSE RAdd(Head(s), RSum(Tail(s)))

\* Python's max(signal) on a non-empty sequence
MaxOf(s) == CHOOSE m \in {s[j] : j \in DOMAIN s} : \A j \in DOMAIN s : s[j] <= m

\* Python's s[a:b] for 0 <= a, with 0-based a and exclusive b
Slice(s, a, b) ==
    LET e == IF b > Len(s) THEN Len(s) ELSE b
    IN  IF e <= a THEN <<>> ELSE SubSeq(s, a + 1, e)


\* ------------------------------------------------------------ state
VARIABLES
    \* the device
    low, high,      \* _search_low, _search_high
    pos,            \* the delay actuator's position (_delay_motor.position.delay)
    zone,           \* per monitor channel, the tick interval where its peak is high
    buffLen,        \* what _buff.get() returns
    pad,            \* the value of the samples beyond the useful length
    glitch,         \* the signal.get() call, counted from 1, that returns a
                    \* reading one sample short (0: none does)
    errK, errD0,    \* the error channel's response: K * (delay - D0)
    \* the call in progress
    pc,             \* where the program is
    entry,          \* the method the caller invoked
    pos0,           \* the actuator's position when it was invoked
    checks,         \* what the health checks returned (auto_overlap drops it)
    stepsize,       \* optimize_monitor's stepsize (auto_overlap's coarse_step)
    fine_step,      \* auto_overlap's fine_step
    navg,
    mon,            \* the channel optimize_monitor works on
    motor_start,    \* optimize_monitor's motor_start
    i,              \* auto_overlap's attempt counter
    optRet,         \* what the optimize_monitor calls of this attempt returned
    scan_end,       \* _measure_error's scan_end
    delays, errors, \* _measure_error's lists
    zero,           \* what _find_zero_error returned
    outcome,        \* how the call ended
    \* history
    nReads,         \* waveform reads (signal.get()) so far
    nBuffReads,     \* _buff.get() calls so far
    nMoves,         \* motor commands so far
    lastCmd,        \* the last motor command
    trail,          \* the steps of auto_overlap taken so far
    nRetestFail,    \* attempts whose re-test failed
    fresh,          \* <<p>>: the last relative move of the optimize_monitor call
                    \* in progress went to p and no average was tested since
    est,            \* _find_zero_error called on its own: its input and result
    avgCall,        \* _average_signal and _test_monitor called on their own
    slits           \* a SlitsBase device

devVars == <<low, high, zone, buffLen, pad, glitch>>
errVars == <<errK, errD0>>
motVars == <<pos, nMoves, lastCmd>>
argVars == <<entry, pos0, checks, stepsize, fine_step, navg>>
scanVars == <<scan_end, delays, errors>>
vars == <<low, high, pos, zone, buffLen, pad, glitch, errK, errD0, pc, entry, pos0, checks,
          stepsize, fine_step, navg, mon, motor_start, i, optRet, scan_end, delays,
          errors, zero, outcome, nReads, nBuffReads, nMoves, lastCmd, trail,
          nRetestFail, fresh, est, avgCall, slits>>

\* ------------------------------------------------------------ the devices
Channels == {0, 1}
Steps == 1 .. MaxStep
FineSteps == {1, 2 * Unit}
Navgs == {1, MaxNavg}
\* <<low, high>>
Ranges == {<<-5 * Unit, 5 * Unit>>, <<0, Unit>>, <<0, Unit + 1>>}
Starts == (-1) .. (Unit + 1)
\* <<lo, hi>>: nowhere, everywhere, ahead of the starts (channel 0), behind
\* them (channel 1), at the single tick 1 (channel 1)
ZonesOf(m) ==
    {<<1, 0>>, <<-6 * Unit, 6 * Unit>>,
     IF m = 0 THEN <<Unit + 2, Unit + 3>> ELSE <<-Unit - 1, -Unit>>}
        \cup (IF m = 1 THEN {<<1, 1>>} ELSE {})
\* shorter than a reading, a whole reading, longer than a reading
BuffLens == {WaveLen - 1, WaveLen, WaveLen + 1}
Pads == {0, Thr + 1}
\* no short reading, the second reading short, the third
Glitches == {0, 2, 3}
\* <<K, D0>>
ErrCurves == {<<0, 0>>} \cup ({-1, 1} \X {-1, 0, Unit})

\* the tick a position lies in (positions the scans take are whole ticks)
Tick(p) == p[1] \div p[2]

InZone(m, p) == RLe(Q(zone[m][1]), p) /\ RLe(p, Q(zone[m][2]))

\* one reading of monitor channel m with the actuator at p: a baseline sample,
\* the pulse up to the useful length, padding beyond it
MonReading(m, p) ==
    [j \in 1 .. WaveLen |->
        IF j > buffLen THEN pad
        ELSE IF j = 1 THEN 0
        ELSE IF InZone(m, p) THEN Thr + 1 ELSE Thr]

\* one reading of the error channel with the actuator at p
ErrReading(p) ==
    [j \in 1 .. WaveLen |->
        IF j > buffLen THEN pad
        ELSE IF j = 1 THEN 0
        ELSE errK * (Tick(p) - errD0)]

\* what the k-th signal.get() from now returns when the channel shows r
ReadAt(r, k) == IF nReads + k = glitch THEN SubSeq(r, 1, Len(r) - 1) ELSE r

\* what the next n signal.get() calls return
Reads(r, n) == [k \in 1 .. n |-> ReadAt(r, k)]

\* ------------------------------------------------------------ pure functions
\* the threshold itself let through
_test_monitor_Ge(signal, threshold) == MaxOf(signal) >= threshold

\* lines 79-86
_test_monitor(signal, threshold) == MaxOf(signal) > threshold

\* a short reading let through
_get_signal_NoRaise(sig, length) == [ok |-> TRUE, val |-> Slice(sig, 0, length)]

\* the slice left out
_get_signal_NoSlice(sig, length) ==
    IF Len(sig) < length THEN [ok |-> FALSE, val |-> <<>>]
    ELSE [ok |-> TRUE, val |-> sig]

\* [ok |-> FALSE]: ValueError raised
_get_signal(sig, length) ==
    IF Len(sig) < length THEN [ok |-> FALSE, val |-> <<>>]
    ELSE [ok |-> TRUE, val |-> Slice(sig, 0, length)]

\* the index of the first of the n readings that is too short, n + 1 if none
FirstShort(src, n, length) ==
    IF \E k \in 1 .. n : ~_get_signal(src[k], length).ok
    THEN CHOOSE k \in 1 .. n :
            /\ ~_get_signal(src[k], length).ok
            /\ \A h \in 1 .. (k - 1) : _get_signal(src[h], length).ok
    ELSE n + 1

\* len(list(zip(*ws))): the length of the shortest of ws, 0 when ws is empty
ZipLen(ws) ==
    IF ws = <<>> THEN 0
    ELSE CHOOSE m \in {Len(ws[k]) : k \in DOMAIN ws} : \A k \in DOMAIN ws : m <= Len(ws[k])

\* src[k] is what the k-th signal.get() returns.  val: the sample-wise sums of
\* the n readings (np.mean times n); reads: the signal.get() calls made; err:
\* the exception raised when not ok (np.mean(..., axis=1) of an empty list
\* raises AxisError)
_average_signal(src, n, length) ==
    LET bad == FirstShort(src, n, length)
        waveforms == [k \in 1 .. n |-> _get_signal(src[k], length).val]
    IN  IF bad <= n
        THEN [ok |-> FALSE, err |-> "ValueError_length", val |-> <<>>, reads |-> bad]
        ELSE IF ZipLen(waveforms) = 0
        THEN [ok |-> FALSE, err |-> "AxisError", val |-> <<>>, reads |-> n]
        ELSE [ok |-> TRUE, err |-> "none",
              val |-> [j \in 1 .. ZipLen(waveforms) |->
                          SumSeq([k \in 1 .. n |-> waveforms[k][j]])],
              reads |-> n]

\* np.trapz(avg - np.average(avg[0:nb])) times 2 * n * len(avg[0:nb]), from the
\* sample-wise sums avg of n readings
_integrate_error(avg, nb) ==
    LET base == Slice(avg, 0, nb)
        signal == [j \in 1 .. Len(avg) |-> Len(base) * avg[j] - SumSeq(base)]
    IN  SumSeq([j \in 1 .. (Len(avg) - 1) |-> signal[j] + signal[j + 1]])

\* np.gradient(errors) times 2, unit spacing (needs two points or more)
Gradient2(e) ==
    [j \in 1 .. Len(e) |->
        IF j = 1 THEN 2 * (e[2] - e[1])
        ELSE IF j = Len(e) THEN 2 * (e[Len(e)] - e[Len(e) - 1])
        ELSE e[j + 1] - e[j - 1]]

\* grad.argmax(): the 0-based index of the first maximum
ArgMax(g) ==
    (CHOOSE j \in 1 .. Len(g) :
        /\ \A h \in 1 .. Len(g) : g[h] <= g[j]
        /\ \A h \in 1 .. (j - 1) : g[h] < g[j]) - 1

\* the 0-based slice bounds [start, end) of the fit
FitEnd(center, n) == IF center + spread > n THEN n ELSE center + spread
FitStart(center) == IF center - spread < 0 THEN 0 ELSE center - spread

\* np.polyfit(x, y, 1): <<slope, intercept>> of the least-squares line
PolyFit1(x, y) ==
    LET n == Q(Len(x))
        sx == RSum(x)
        sy == RSum(y)
        sxx == RSum([j \in 1 .. Len(x) |-> RMul(x[j], x[j])])
        sxy == RSum([j \in 1 .. Len(x) |-> RMul(x[j], y[j])])
        slope == RDiv(RSub(RMul(n, sxy), RMul(sx, sy)),
                      RSub(RMul(n, sxx), RMul(sx, sx)))
    IN  <<slope, RDiv(RSub(sy, RMul(slope, sx)), n)>>

\* the sign of the intercept kept
FitZero_NoNeg(coeff) == RDiv(coeff[2], coeff[1])

\* line 260
FitZero(coeff) == RDiv(RNeg(coeff[2]), coeff[1])

\* the sign test left out
Validate_NoNegative(z, ds) ==
    IF RLt(z, ds[1]) \/ RGt(z, ds[Len(ds)]) THEN "ValueError_range"
    ELSE "value"

\* lines 263-266 and 274: the error raised, or "value" when zero is returned
Validate(z, ds) ==
    IF RLt(z, ds[1]) \/ RGt(z, ds[Len(ds)]) THEN "ValueError_range"
    ELSE IF RLt(z, Q(0)) THEN "ValueError_negative"
    ELSE "value"

\* ds: delays (rationals), es: errors (integers).  kind "value": zero is
\* returned; any other kind is the error raised
_find_zero_error(ds, es) ==
    IF Len(es) < 2
    THEN [kind |-> "ValueError_gradient", zero |-> <<0, 0>>, start |-> 0, end |-> 0]
    ELSE
    LET center == ArgMax(Gradient2(es))
        end == FitEnd(center, Len(es))
        start == FitStart(center)
        x == Slice(ds, start, end)
        y == [j \in 1 .. Len(x) |-> Q(Slice(es, start, end)[j])]
        coeff == PolyFit1(x, y)
        z == FitZero(coeff)
    IN  [kind |-> Validate(z, ds), zero |-> z, start |-> start, end |-> end]

\* stubs that report good health
_check_signals == TRUE
_check_motor == TRUE

\* ------------------------------------------------------------ the actuator
\* _delay_motor.mv(target, wait=True)
Mv(target) ==
    /\ pos' = target
    /\ nMoves' = nMoves + 1
    /\ lastCmd' = [kind |-> "mv", arg |-> target]

\* _delay_motor.mvr(delta, wait=True)
Mvr(delta) ==
    /\ pos' = RAdd(pos, Q(delta))
    /\ nMoves' = nMoves + 1
    /\ lastCmd' = [kind |-> "mvr", arg |-> Q(delta)]

\* no slits device has been constructed
NoSlits == [kind |-> "none"]

\* ------------------------------------------------------------ Init
Init ==
    /\ \E r \in Ranges : low = r[1] /\ high = r[2]
    /\ pos \in {Q(s) : s \in Starts}
    \* the single-tick zone is tried on the narrow ranges only
    /\ zone \in {z \in [Channels -> UNION {ZonesOf(m) : m \in Channels}] :
                    /\ \A m \in Channels : z[m] \in ZonesOf(m)
                    /\ z[1] = <<1, 1>> => low = 0}
    /\ buffLen \in BuffLens
    /\ pad \in IF buffLen < WaveLen THEN Pads ELSE {0}
    /\ glitch \in IF buffLen = WaveLen THEN Glitches ELSE {0}
    /\ errK = 0
    /\ errD0 = 0
    /\ pc = "idle"
    /\ entry = "none"
    /\ pos0 = Q(0)
    /\ checks = <<>>
    /\ stepsize = 0
    /\ fine_step = 0
    /\ navg = 0
    /\ mon = 0
    /\ motor_start = Q(0)
    /\ i = 0
    /\ optRet = <<>>
    /\ scan_end = Q(0)
    /\ delays = <<>>
    /\ errors = <<>>
    /\ zero = <<0, 0>>
    /\ outcome = "none"
    /\ nReads = 0
    /\ nBuffReads = 0
    /\ nMoves = 0
    /\ lastCmd = [kind |-> "none", arg |-> Q(0)]
    /\ trail = <<>>
    /\ nRetestFail = 0
    /\ fresh = <<>>
    /\ est = [kind |-> "none"]
    /\ avgCall = [kind |-> "none"]
    /\ slits = NoSlits

\* ------------------------------------------------------------ optimize_monitor
\* an exception leaves the call: nothing in the class catches one
Raise(what) ==
    /\ pc' = "done"
    /\ outcome' = what

\* the range test with both ends let in
Inside_Inclusive(p) == RLe(p, Q(high)) /\ RLe(Q(low), p)

\* line 173
Inside(p) == RLt(p, Q(high)) /\ RGt(p, Q(low))

\* the forward sweep without an upper bound
FwdGuard_Unbounded == TRUE

\* the sweep bound tested on the position, not on the next position
FwdGuard_NoStep == RLt(pos, Q(high))

\* line 180
FwdGuard == RLt(RAdd(pos, Q(stepsize)), Q(high))

\* line 188
BwdGuard == RGt(RSub(pos, Q(stepsize)), Q(low))

\* the restore left out
Restore_Skip == UNCHANGED motVars

\* line 195
Restore == Mv(motor_start)

\* lines 172-178: read the position, refuse to start outside (low, high)
EnterOptimize(m) ==
    /\ mon' = m
    /\ motor_start' = pos
    /\ fresh' = <<>>
    /\ IF Inside(pos)
       THEN pc' = "opt_fwd" /\ outcome' = outcome
       ELSE Raise("ValueError_outside")

\* return b from optimize_monitor, to the caller or into auto_overlap
OptReturn(b) ==
    /\ optRet' = Append(optRet, b)
    /\ IF entry = "optimize_monitor"
       THEN pc' = "done" /\ outcome' = IF b THEN "True" ELSE "False"
       ELSE pc' = "opt_ret" /\ outcome' = outcome

\* the step made before the return
OptProbe_MoveThenReturn(delta) ==
    LET a == _average_signal(Reads(MonReading(mon, pos), navg), navg, buffLen)
    IN  /\ nBuffReads' = nBuffReads + 1
        /\ nReads' = nReads + a.reads
        /\ IF ~a.ok
           THEN Raise(a.err) /\ UNCHANGED <<motVars, optRet, fresh>>
           ELSE IF _test_monitor(a.val, Thr * navg)
           THEN Mvr(delta) /\ OptReturn(TRUE) /\ fresh' = <<>>
           ELSE Mvr(delta) /\ fresh' = <<pos'>> /\ UNCHANGED <<pc, outcome, optRet>>

\* the body of either sweep loop (lines 181-184, 189-192)
OptProbe(delta) ==
    LET a == _average_signal(Reads(MonReading(mon, pos), navg), navg, buffLen)
    IN  /\ nBuffReads' = nBuffReads + 1
        /\ nReads' = nReads + a.reads
        /\ IF ~a.ok
           THEN Raise(a.err) /\ UNCHANGED <<motVars, optRet, fresh>>
           ELSE IF _test_monitor(a.val, Thr * navg)
           THEN OptReturn(TRUE) /\ fresh' = <<>> /\ UNCHANGED motVars
           ELSE Mvr(delta) /\ fresh' = <<pos'>> /\ UNCHANGED <<pc, outcome, optRet>>

CallOptimizeMonitor ==
    /\ pc = "idle"
    /\ \E s \in Steps, m \in Channels, n \in Navgs :
        /\ entry' = "optimize_monitor"
        /\ pos0' = pos
        /\ checks' = checks
        /\ stepsize' = s
        /\ navg' = n
        /\ EnterOptimize(m)
    /\ UNCHANGED <<slits, devVars, errVars, motVars, fine_step, i, optRet, scanVars, zero,
                   nReads, nBuffReads, trail, nRetestFail, est, avgCall>>

\* the forward sweep (lines 180-184) and its exit (line 187)
OptForward ==
    /\ pc = "opt_fwd"
    /\ IF FwdGuard
       THEN OptProbe(stepsize)
       ELSE /\ pc' = "opt_bwd"
            /\ UNCHANGED <<motVars, optRet, outcome, nReads, nBuffReads, fresh>>
    /\ UNCHANGED <<slits, devVars, errVars, argVars, mon, motor_start, i, scanVars, zero,
                   trail, nRetestFail, est, avgCall>>

\* the backward sweep (lines 188-192), then the restore (lines 195-196)
OptBackward ==
    /\ pc = "opt_bwd"
    /\ IF BwdGuard
       THEN OptProbe(-stepsize)
       ELSE /\ Restore
            /\ OptReturn(FALSE)
            /\ UNCHANGED <<nReads, nBuffReads, fresh>>
    /\ UNCHANGED <<slits, devVars, errVars, argVars, mon, motor_start, i, scanVars, zero,
                   trail, nRetestFail, est, avgCall>>

\* ------------------------------------------------------------ auto_overlap
\* lines 277-284: the health checks, whose results are dropped, then the
\* first optimization of the first attempt
CallAutoOverlap ==
    /\ pc = "idle"
    /\ \E c \in Steps, f \in FineSteps, n \in Navgs :
        /\ entry' = "auto_overlap"
        /\ pos0' = pos
        /\ checks' = <<_check_signals, _check_motor>>
        /\ stepsize' = c
        /\ fine_step' = f
        /\ navg' = n
    /\ i' = 0
    /\ trail' = <<"check_signals", "check_motor", "attempt">>
    /\ EnterOptimize(0)
    /\ UNCHANGED <<slits, devVars, errVars, motVars, optRet, scanVars, zero, nReads,
                   nBuffReads, nRetestFail, est, avgCall>>

\* lines 287-289: the second optimization of the attempt
AutoSecond ==
    /\ pc = "opt_ret"
    /\ Len(optRet) = 1
    /\ EnterOptimize(1)
    /\ UNCHANGED <<slits, devVars, errVars, motVars, argVars, i, optRet, scanVars, zero,
                   nReads, nBuffReads, trail, nRetestFail, est, avgCall>>

\* one attempt too many
Retry_OneMore(n) == n <= MaxTries

\* line 283, with i already incremented
Retry(n) == n < MaxTries

\* the attempt accepted on one channel alone
Proceed_Either(test_1, test_2) == test_1 \/ test_2

\* line 293
Proceed(test_1, test_2) == test_1 /\ test_2

\* lines 291-298: the re-test of both channels, then break, retry or give up
AutoRetest ==
    /\ pc = "opt_ret"
    /\ Len(optRet) = 2
    /\ nReads' = nReads + 2
    /\ LET test_1 == _test_monitor(ReadAt(MonReading(0, pos), 1), Thr)
           test_2 == _test_monitor(ReadAt(MonReading(1, pos), 2), Thr)
       IN  IF Proceed(test_1, test_2)
           THEN /\ pc' = "measure"
                /\ UNCHANGED <<i, optRet, mon, motor_start, fresh, outcome, trail, nRetestFail>>
           ELSE /\ i' = i + 1
                /\ nRetestFail' = nRetestFail + 1
                /\ IF Retry(i + 1)
                   THEN /\ optRet' = <<>>
                        /\ trail' = Append(trail, "attempt")
                        /\ EnterOptimize(0)
                   ELSE /\ Raise("Exception_exhausted")
                        /\ UNCHANGED <<optRet, mon, motor_start, fresh, trail>>
    /\ UNCHANGED <<slits, devVars, errVars, motVars, argVars, scanVars, zero, nBuffReads, est, avgCall>>

\* _measure_error, lines 214-220; the error channel's response is fixed here,
\* where it is first observed
MeasureStart ==
    /\ pc = "measure"
    /\ \E c \in ErrCurves : errK' = c[1] /\ errD0' = c[2]
    /\ scan_end' = RAdd(RSub(pos, Q(Unit)), Q(2 * Unit))
    /\ Mv(RSub(pos, Q(Unit)))
    /\ delays' = <<>>
    /\ errors' = <<>>
    /\ trail' = Append(trail, "scan")
    /\ pc' = "scan"
    /\ UNCHANGED <<slits, devVars, argVars, mon, motor_start, fresh, i, optRet, zero, outcome,
                   nReads, nBuffReads, nRetestFail, est, avgCall>>

\* the end of the scan let in
ScanGuard_Inclusive == RLe(pos, scan_end)

\* line 221
ScanGuard == RLt(pos, scan_end)

\* _measure_error, lines 221-225 and the return at line 231
ScanStep ==
    /\ pc = "scan"
    /\ IF ScanGuard
       THEN LET a == _average_signal(Reads(ErrReading(pos), navg), navg, buffLen)
            IN  /\ nBuffReads' = nBuffReads + 1
                /\ nReads' = nReads + a.reads
                /\ delays' = Append(delays, pos)
                /\ IF ~a.ok
                   THEN Raise(a.err) /\ UNCHANGED <<motVars, errors>>
                   ELSE /\ errors' = Append(errors, _integrate_error(a.val, nbaseline))
                        /\ Mvr(fine_step)
                        /\ UNCHANGED <<pc, outcome>>
       ELSE /\ pc' = "fit"
            /\ UNCHANGED <<motVars, delays, errors, outcome, nReads, nBuffReads>>
    /\ UNCHANGED <<slits, devVars, errVars, argVars, mon, motor_start, fresh, i, optRet, scan_end,
                   zero, trail, nRetestFail, est, avgCall>>

\* line 305
FindZero ==
    /\ pc = "fit"
    /\ trail' = Append(trail, "fit")
    /\ LET r == _find_zero_error(delays, errors)
       IN  IF r.kind = "value"
           THEN zero' = r.zero /\ pc' = "final" /\ outcome' = outcome
           ELSE zero' = zero /\ Raise(r.kind)
    /\ UNCHANGED <<slits, devVars, errVars, motVars, argVars, mon, motor_start, fresh, i, optRet,
                   scanVars, nReads, nBuffReads, nRetestFail, est, avgCall>>

\* the final move sent to the end of the scan window instead of the estimate
FinalMove_ToScanEnd ==
    /\ pc = "final"
    /\ Mv(scan_end)
    /\ trail' = Append(trail, "move")
    /\ pc' = "done"
    /\ outcome' = "returned"
    /\ UNCHANGED <<slits, devVars, errVars, argVars, mon, motor_start, fresh, i, optRet, scanVars,
                   zero, nReads, nBuffReads, nRetestFail, est, avgCall>>

\* line 307
FinalMove ==
    /\ pc = "final"
    /\ Mv(zero)
    /\ trail' = Append(trail, "move")
    /\ pc' = "done"
    /\ outcome' = "returned"
    /\ UNCHANGED <<slits, devVars, errVars, argVars, mon, motor_start, fresh, i, optRet, scanVars,
                   zero, nReads, nBuffReads, nRetestFail, est, avgCall>>

Next ==
    \/ CallOptimizeMonitor
    \/ OptForward
    \/ OptBackward
    \/ CallAutoOverlap
    \/ AutoSecond
    \/ AutoRetest
    \/ MeasureStart
    \/ ScanStep
    \/ FindZero
    \/ FinalMove

Spec == Init /\ [][Next]_vars

\* ------------------------------------------------------------ _find_zero_error alone
\* strictly increasing delays: a first delay, then gaps of one or two ticks
RECURSIVE Curves(_)
Curves(n) ==
    IF n = 1 THEN {<<d>> : d \in {-Unit, 0, 1}}
    ELSE {Append(c, c[n - 1] + g) : c \in Curves(n - 1), g \in {1, 2}}

EstSlopes == {-2, -1, 0, 1, 2}
EstZeros == (-1) .. (MaxCurve + 1)

InitEst ==
    /\ low = 0
    /\ high = Unit
    /\ pos = Q(1)
    /\ zone = [m \in Channels |-> <<1, 0>>]
    /\ buffLen = WaveLen
    /\ pad = 0
    /\ glitch = 0
    /\ errK = 0
    /\ errD0 = 0
    /\ pc = "idle"
    /\ entry = "none"
    /\ pos0 = Q(0)
    /\ checks = <<>>
    /\ stepsize = 0
    /\ fine_step = 0
    /\ navg = 0
    /\ mon = 0
    /\ motor_start = Q(0)
    /\ i = 0
    /\ optRet = <<>>
    /\ scan_end = Q(0)
    /\ delays = <<>>
    /\ errors = <<>>
    /\ zero = <<0, 0>>
    /\ outcome = "none"
    /\ nReads = 0
    /\ nBuffReads = 0
    /\ nMoves = 0
    /\ lastCmd = [kind |-> "none", arg |-> Q(0)]
    /\ trail = <<>>
    /\ nRetestFail = 0
    /\ fresh = <<>>
    /\ avgCall = [kind |-> "none"]
    /\ slits = NoSlits
    /\ \E n \in 1 .. MaxCurve : \E c \in Curves(n) :
       \E k \in EstSlopes : \E d0 \in EstZeros :
          est = [kind |-> "input", k |-> k, d0 |-> d0,
                 delays |-> [j \in 1 .. n |-> Q(c[j])],
                 errors |-> [j \in 1 .. n |-> k * (c[j] - d0)]]

\* _find_zero_error(delays, errors) called by itself
EstCall ==
    /\ est.kind = "input"
    /\ est' = [kind |-> "result", k |-> est.k, d0 |-> est.d0,
               delays |-> est.delays, errors |-> est.errors,
               res |-> _find_zero_error(est.delays, est.errors)]
    /\ UNCHANGED <<slits, devVars, errVars, motVars, argVars, scanVars, pc, mon, motor_start, fresh,
                   i, optRet, zero, outcome, nReads, nBuffReads, trail, nRetestFail,
                   avgCall>>

NextEst == EstCall

SpecEst == InitEst /\ [][NextEst]_vars

\* ------------------------------------------------------------ _average_signal alone
Samples == {0, Thr, Thr + 1}

\* the readings a source gives in turn, the first at most WaveLen samples long
\* and the second one sample shorter or longer than WaveLen
Patterns ==
    {<<r1, r2>> :
        r1 \in UNION {[1 .. m -> Samples] : m \in {WaveLen - 1, WaveLen}},
        r2 \in UNION {[1 .. m -> {Thr, Thr + 1}] : m \in {WaveLen - 1, WaveLen + 1}}}

\* what the k-th signal.get() on the source returns
SrcReading(k) == avgCall.pattern[((k - 1) % 2) + 1]

InitAvg ==
    /\ low = 0
    /\ high = Unit
    /\ pos = Q(1)
    /\ zone = [m \in Channels |-> <<1, 0>>]
    /\ buffLen = WaveLen
    /\ pad = 0
    /\ glitch = 0
    /\ errK = 0
    /\ errD0 = 0
    /\ pc = "idle"
    /\ entry = "none"
    /\ pos0 = Q(0)
    /\ checks = <<>>
    /\ stepsize = 0
    /\ fine_step = 0
    /\ navg = 0
    /\ mon = 0
    /\ motor_start = Q(0)
    /\ i = 0
    /\ optRet = <<>>
    /\ scan_end = Q(0)
    /\ delays = <<>>
    /\ errors = <<>>
    /\ zero = <<0, 0>>
    /\ outcome = "none"
    /\ nReads = 0
    /\ nBuffReads = 0
    /\ nMoves = 0
    /\ lastCmd = [kind |-> "none", arg |-> Q(0)]
    /\ trail = <<>>
    /\ nRetestFail = 0
    /\ fresh = <<>>
    /\ est = [kind |-> "none"]
    /\ slits = NoSlits
    /\ \E p \in Patterns : \E n \in 1 .. MaxNavg : \E length \in 0 .. WaveLen :
          avgCall = [kind |-> "input", pattern |-> p, n |-> n, length |-> length,
                     nread |-> 0, ncalls |-> 0]

\* _average_signal(signal, navg, length) called by itself, again and again
AvgCall ==
    /\ avgCall.kind \in {"input", "averaged", "tested"}
    /\ avgCall.ncalls < MaxCalls
    /\ LET first == avgCall.nread
           res == _average_signal([k \in 1 .. avgCall.n |-> SrcReading(first + k)],
                                  avgCall.n, avgCall.length)
       IN  avgCall' = [kind |-> "averaged", pattern |-> avgCall.pattern,
                       n |-> avgCall.n, length |-> avgCall.length,
                       nread |-> first + res.reads, ncalls |-> avgCall.ncalls + 1,
                       first |-> first, res |-> res]
    /\ UNCHANGED <<slits, devVars, errVars, motVars, argVars, scanVars, pc, mon, motor_start, fresh,
                   i, optRet, zero, outcome, nReads, nBuffReads, trail, nRetestFail,
                   est>>

\* _test_monitor on the average just taken, as optimize_monitor makes it
TestCall ==
    /\ avgCall.kind = "averaged"
    /\ avgCall.res.ok
    /\ avgCall' = [kind |-> "tested", pattern |-> avgCall.pattern,
                   n |-> avgCall.n, length |-> avgCall.length,
                   nread |-> avgCall.nread, ncalls |-> avgCall.ncalls,
                   first |-> avgCall.first, res |-> avgCall.res,
                   threshold |-> Thr * avgCall.n,
                   pass |-> _test_monitor(avgCall.res.val, Thr * avgCall.n)]
    /\ UNCHANGED <<slits, devVars, errVars, motVars, argVars, scanVars, pc, mon, motor_start, fresh,
                   i, optRet, zero, outcome, nReads, nBuffReads, trail, nRetestFail,
                   est>>

NextAvg ==
    \/ AvgCall
    \/ TestCall

SpecAvg == InitAvg /\ [][NextAvg]_vars

\* ------------------------------------------------------------ SlitsBase
\* slits is a record: xwidth, ywidth are the positions the two width
\* positioners report, xsetpoint, ysetpoint the positions last commanded,
\* ready says whether a lightpath update has been processed, last is the
\* last call of move or remove.
Widths == 0 .. MaxWidth
Nominals == 1 .. (MaxWidth - 1)
\* the size argument of remove: <<>> for None, <<s>> for a number
RemoveSizes == {<<>>} \cup {<<z>> : z \in 0 .. (MaxWidth + 1)}
\* the size argument of move: <<s>> for a number, <<w, h>> for a tuple
MoveSizes == {<<z>> : z \in Widths} \cup {<<0, MaxWidth>>, <<MaxWidth, 1>>}

Min2(a, b) == IF a < b THEN a ELSE b

current_aperture == <<slits.xwidth, slits.ywidth>>

\* the smallest width let count as blocking
_set_lightpath_states_Le(lightpath_values) ==
    LET _inserted == Min2(lightpath_values[1], lightpath_values[2])
                        <= slits.nominal_aperture
    IN  [_inserted |-> _inserted, _removed |-> ~_inserted]

\* lines 250-253; lightpath_values: <<the value of xwidth, the value of ywidth>>
_set_lightpath_states(lightpath_values) ==
    LET _inserted == Min2(lightpath_values[1], lightpath_values[2])
                        < slits.nominal_aperture
    IN  [_inserted |-> _inserted, _removed |-> ~_inserted]

\* lines 138-146: the positions commanded to <<xwidth, ywidth>>
move(size) == IF Len(size) = 2 THEN <<size[1], size[2]>> ELSE <<size[1], size[1]>>

\* line 199: Python's "size or self.nominal_aperture" keeps a number other
\* than 0; for None and for 0 it gives the nominal_aperture Signal itself,
\* not its value
SizeIsSignal(size) == size = <<>> \/ size[1] = 0

\* lines 199-205.  "TypeError": the Signal compared with a number
remove(size) ==
    IF SizeIsSignal(size) THEN [status |-> "TypeError", cmd |-> <<>>]
    ELSE IF size[1] > Min2(current_aperture[1], current_aperture[2])
    THEN [status |-> "move", cmd |-> move(size)]
    ELSE [status |-> "finished", cmd |-> <<>>]

InitSlits ==
    /\ low = 0
    /\ high = Unit
    /\ pos = Q(1)
    /\ zone = [m \in Channels |-> <<1, 0>>]
    /\ buffLen = WaveLen
    /\ pad = 0
    /\ glitch = 0
    /\ errK = 0
    /\ errD0 = 0
    /\ pc = "idle"
    /\ entry = "none"
    /\ pos0 = Q(0)
    /\ checks = <<>>
    /\ stepsize = 0
    /\ fine_step = 0
    /\ navg = 0
    /\ mon = 0
    /\ motor_start = Q(0)
    /\ i = 0
    /\ optRet = <<>>
    /\ scan_end = Q(0)
    /\ delays = <<>>
    /\ errors = <<>>
    /\ zero = <<0, 0>>
    /\ outcome = "none"
    /\ nReads = 0
    /\ nBuffReads = 0
    /\ nMoves = 0
    /\ lastCmd = [kind |-> "none", arg |-> Q(0)]
    /\ trail = <<>>
    /\ nRetestFail = 0
    /\ fresh = <<>>
    /\ est = [kind |-> "none"]
    /\ avgCall = [kind |-> "none"]
    /\ \E x \in Widths, y \in Widths, a \in Nominals :
          slits = [kind |-> "SlitsBase", nominal_aperture |-> a,
                   xwidth |-> x, ywidth |-> y, xsetpoint |-> x, ysetpoint |-> y,
                   ready |-> FALSE, _inserted |-> FALSE, _removed |-> FALSE,
                   last |-> [op |-> "none"]]

autoVars ==
    <<devVars, errVars, motVars, argVars, scanVars, pc, mon, motor_start, i, optRet,
      zero, outcome, nReads, nBuffReads, trail, nRetestFail, fresh, est, avgCall>>

\* the width positioners report new positions and the lightpath states are
\* computed from them
LightpathUpdate ==
    /\ \E x \in Widths, y \in Widths :
          LET st == _set_lightpath_states(<<x, y>>)
          IN  slits' = [slits EXCEPT !.xwidth = x, !.ywidth = y, !.ready = TRUE,
                                     !._inserted = st._inserted,
                                     !._removed = st._removed,
                                     !.last = [op |-> "update"]]
    /\ UNCHANGED autoVars

\* move(size), lines 109-158 (wait=False)
SlitsMove ==
    /\ \E size \in MoveSizes :
          slits' = [slits EXCEPT !.xsetpoint = move(size)[1],
                                 !.ysetpoint = move(size)[2],
                                 !.last = [op |-> "move", size |-> size,
                                           before |-> current_aperture,
                                           status |-> "move", cmd |-> move(size)]]
    /\ UNCHANGED autoVars

\* remove(size), lines 172-205 (wait=False)
SlitsRemove ==
    /\ \E size \in RemoveSizes :
          LET r == remove(size)
          IN  slits' = [slits EXCEPT
                          !.xsetpoint = IF r.cmd = <<>> THEN @ ELSE r.cmd[1],
                          !.ysetpoint = IF r.cmd = <<>> THEN @ ELSE r.cmd[2],
                          !.last = [op |-> "remove", size |-> size,
                                    before |-> current_aperture,
                                    status |-> r.status, cmd |-> r.cmd]]
    /\ UNCHANGED autoVars

NextSlits ==
    \/ LightpathUpdate
    \/ SlitsMove
    \/ SlitsRemove

SpecSlits == InitSlits /\ [][NextSlits]_vars

\* ------------------------------------------------------------ BeckhoffSlits
\* The slits record of kind "BeckhoffSlits" holds the values of the signals
\* (0 or 1; Python's False and True compare equal to them), _started_move,
\* and pending, the exec_move.put(1) tasks scheduled and not yet run.  A put
\* stores the value and runs the value subscriptions with the new and the old
\* value before the next event is handled.
Positioners == {"xwidth", "ywidth", "xcenter", "ycenter"}
Blades == {"top", "bottom", "north", "south"}

\* a GO scheduled at every request
_exec_handler_EveryRequest(s, value, old_value) ==
    IF value = 1
    THEN [s EXCEPT !._started_move = TRUE, !.pending = @ + 1]
    ELSE s

\* lines 434-439
_exec_handler(s, value, old_value) ==
    IF value = 1 /\ old_value = 0
    THEN [s EXCEPT !._started_move = TRUE, !.pending = @ + 1]
    ELSE s

\* exec_queue.put(v)
PutExecQueue(s, v) == _exec_handler([s EXCEPT !.exec_queue = v], v, s.exec_queue)

\* exec_move.put(v): no subscription in the class
PutExecMove(s, v) == [s EXCEPT !.exec_move = v]

\* lines 393-396
_execute_move(s, value) == IF value = 1 THEN PutExecQueue(s, 1) ELSE s

\* actuate.put(v) of positioner p
PutActuate(s, p, v) == _execute_move([s EXCEPT !.actuate[p] = v], v)

\* lines 398-401
_reset_actuate(s, p, value, old_value) ==
    IF value = 1 /\ old_value = 0 THEN PutActuate(s, p, 0) ELSE s

\* done.put(v) of positioner p
PutDone(s, p, v) == _reset_actuate([s EXCEPT !.done[p] = v], p, v, s.done[p])

\* lines 441-447
_reset_exec_move(s, value, old_value) ==
    IF s._started_move /\ value = 1 /\ old_value = 0
    THEN PutExecMove(PutExecQueue([s EXCEPT !._started_move = FALSE], 0), 0)
    ELSE s

\* the center positioners left out
_dmov_fanout_WidthsOnly(s, value) ==
    PutDone(PutDone(s, "xwidth", value), "ywidth", value)

\* lines 449-455
_dmov_fanout(s, value) ==
    PutDone(PutDone(PutDone(PutDone(s, "xwidth", value), "ywidth", value),
                    "xcenter", value), "ycenter", value)

\* done_all.put(v): the two subscriptions in the order of their definition
PutDoneAll(s, v) ==
    _dmov_fanout(_reset_exec_move([s EXCEPT !.done_all = v], v, s.done_all), v)

\* Python's all() over the four blade flags, as 0 or 1
AllDone(s) == IF \A b \in Blades : s.blade[b] = 1 THEN 1 ELSE 0

\* lines 457-468
_update_dmov(s) ==
    IF AllDone(s) # s.done_all THEN PutDoneAll(s, AllDone(s)) ELSE s

\* lines 430-432, then the blade flags as the controller shows them and the
\* first _update_dmov
InitBeckhoff ==
    /\ low = 0
    /\ high = Unit
    /\ pos = Q(1)
    /\ zone = [m \in Channels |-> <<1, 0>>]
    /\ buffLen = WaveLen
    /\ pad = 0
    /\ glitch = 0
    /\ errK = 0
    /\ errD0 = 0
    /\ pc = "idle"
    /\ entry = "none"
    /\ pos0 = Q(0)
    /\ checks = <<>>
    /\ stepsize = 0
    /\ fine_step = 0
    /\ navg = 0
    /\ mon = 0
    /\ motor_start = Q(0)
    /\ i = 0
    /\ optRet = <<>>
    /\ scan_end = Q(0)
    /\ delays = <<>>
    /\ errors = <<>>
    /\ zero = <<0, 0>>
    /\ outcome = "none"
    /\ nReads = 0
    /\ nBuffReads = 0
    /\ nMoves = 0
    /\ lastCmd = [kind |-> "none", arg |-> Q(0)]
    /\ trail = <<>>
    /\ nRetestFail = 0
    /\ fresh = <<>>
    /\ est = [kind |-> "none"]
    /\ avgCall = [kind |-> "none"]
    /\ \E bl \in [Blades -> {0, 1}] :
          slits = _update_dmov(
                    [kind |-> "BeckhoffSlits", _started_move |-> FALSE,
                     exec_queue |-> 0, exec_move |-> 0, pending |-> 0,
                     done_all |-> 0, blade |-> bl,
                     actuate |-> [p \in Positioners |-> 0],
                     done |-> [p \in Positioners |-> 0],
                     last |-> [op |-> "none"]])

\* a move of positioner p reaches actuate.put(1)
BeckhoffActuate ==
    /\ slits.pending < MaxPending
    /\ \E p \in Positioners :
          slits' = [PutActuate(slits, p, 1) EXCEPT !.last = [op |-> "actuate", p |-> p]]
    /\ UNCHANGED autoVars

\* a task scheduled at line 439 runs: exec_move.put(1)
BeckhoffGo ==
    /\ slits.pending > 0
    /\ slits' = [PutExecMove(slits, 1) EXCEPT !.pending = @ - 1,
                                               !.last = [op |-> "go"]]
    /\ UNCHANGED autoVars

\* the done flag of a blade changes and its subscription runs
BeckhoffDmov ==
    /\ \E b \in Blades :
          slits' = [_update_dmov([slits EXCEPT !.blade[b] = 1 - @])
                        EXCEPT !.last = [op |-> "dmov", b |-> b,
                                         requested |-> slits.actuate]]
    /\ UNCHANGED autoVars

NextBeckhoff ==
    \/ BeckhoffActuate
    \/ BeckhoffGo
    \/ BeckhoffDmov

SpecBeckhoff == InitBeckhoff /\ [][NextBeckhoff]_vars

\* ------------------------------------------------------------ claims
\* the averaged waveform of channel m as optimize_monitor would see it at tick t
AvgAt(m, t) == _average_signal([k \in 1 .. navg |-> MonReading(m, Q(t))], navg, buffLen)

\* no reading is shorter than the useful length
Acquirable == buffLen <= WaveLen /\ (glitch = 0 \/ buffLen < WaveLen)

\* over every tick of the search range
NeverPasses(m) ==
    Acquirable /\ \A t \in low .. high : ~_test_monitor(AvgAt(m, t).val, Thr * navg)
AlwaysPasses(m) ==
    Acquirable /\ \A t \in low .. high : _test_monitor(AvgAt(m, t).val, Thr * navg)

\* an optimize_monitor call has ended by returning
OptReturned ==
    \/ entry = "optimize_monitor" /\ pc = "done" /\ outcome \in {"True", "False"}
    \/ entry = "auto_overlap" /\ pc = "opt_ret"
\* an optimize_monitor call has ended, by returning or raising
OptEnded ==
    \/ OptReturned
    \/ entry = "optimize_monitor" /\ pc = "done"
    \/ entry = "auto_overlap" /\ pc = "done"
          /\ outcome \in {"ValueError_outside", "ValueError_length"} /\ delays = <<>>

\* C1: a call of optimize_monitor that starts strictly inside (low, high) on a
\* channel whose averaged peak exceeds the threshold nowhere ends by
\* returning False, with the actuator where it was when the call began.
C1_NeverPassingReturnsFalse ==
    (OptEnded /\ Inside(motor_start) /\ NeverPasses(mon))
        => /\ OptReturned
           /\ optRet[Len(optRet)] = FALSE
           /\ pos = motor_start
           /\ (entry = "optimize_monitor" => pos = pos0 /\ outcome = "False")

C1_Witness ==
    /\ entry = "optimize_monitor" /\ pc = "done"
    /\ Inside(motor_start) /\ NeverPasses(mon)
    /\ outcome = "False" /\ pos = motor_start
    /\ nMoves >= 4 /\ lastCmd = [kind |-> "mv", arg |-> motor_start]

\* C2: a call of optimize_monitor that starts strictly inside (low, high) on a
\* channel whose averaged peak exceeds the threshold everywhere returns True,
\* for every stepsize, with the actuator no more than one step from the start.
C2_AlwaysPassingReturnsTrue ==
    (entry = "optimize_monitor" /\ pc = "done" /\ Inside(motor_start)
        /\ AlwaysPasses(mon))
        => /\ outcome = "True"
           /\ RLe(pos, RAdd(motor_start, Q(stepsize)))
           /\ RLe(RSub(motor_start, Q(stepsize)), pos)

\* C3: a call of optimize_monitor made with the actuator at or beyond an end
\* of the search range raises the out-of-range error, and no waveform read,
\* buffer-length read or motor command has been made by then.
C3_OutsideRaisesFirst ==
    (entry # "none" /\ ~(RLt(Q(low), motor_start) /\ RLt(motor_start, Q(high))))
        => /\ pc = "done"
           /\ outcome = "ValueError_outside"
           /\ nReads = 0 /\ nBuffReads = 0 /\ nMoves = 0
           /\ pos = motor_start

C3_Witness ==
    /\ entry = "optimize_monitor" /\ pc = "done"
    /\ motor_start = Q(high)
    /\ outcome = "ValueError_outside" /\ nReads = 0 /\ nMoves = 0

\* C4: while optimize_monitor runs, having started strictly inside
\* (low, high), and when it has ended, the actuator is within [low, high].
C4_OptimizeStaysInRange ==
    ((entry = "optimize_monitor" /\ Inside(motor_start))
        \/ pc \in {"opt_fwd", "opt_bwd", "opt_ret"})
        => RLe(Q(low), pos) /\ RLe(pos, Q(high))

\* the backward sweep has gone below the start after a forward sweep to the top
C4_Witness ==
    /\ entry = "optimize_monitor" /\ pc = "opt_bwd"
    /\ nMoves >= 3 /\ lastCmd.kind = "mvr" /\ lastCmd.arg = Q(-stepsize)
    /\ RLt(pos, motor_start)
    /\ ~RGt(RSub(pos, Q(stepsize)), Q(low))

\* C5: auto_overlap on the range [-5, 5] units, called at 0 with the default
\* coarse step, both monitors above threshold everywhere and an error curve
\* linear in the delay that crosses zero at +1 unit, returns, its last motor
\* command being the absolute move to +1 unit.
C5_EndToEnd ==
    (/\ entry = "auto_overlap" /\ pc = "done"
     /\ low = -5 * Unit /\ high = 5 * Unit /\ pos0 = Q(0)
     /\ stepsize = Unit /\ fine_step = 1
     /\ AlwaysPasses(0) /\ AlwaysPasses(1)
     /\ errK # 0 /\ errD0 = Unit)
        => /\ outcome = "returned"
           /\ lastCmd = [kind |-> "mv", arg |-> Q(Unit)]

Count(seq, x) == Cardinality({j \in DOMAIN seq : seq[j] = x})

\* C6: auto_overlap makes at most 3 attempts; it raises the exhausted-retries
\* failure exactly when the re-test has failed in 3 attempts, and then no
\* scan, no estimation and no final move has happened.
C6_ThreeAttempts ==
    /\ Count(trail, "attempt") <= 3
    /\ i <= 3
    /\ nRetestFail = i
    /\ outcome = "Exception_exhausted" <=> nRetestFail = 3
    /\ outcome = "Exception_exhausted"
        => /\ pc = "done"
           /\ Count(trail, "attempt") = 3
           /\ Count(trail, "scan") = 0
           /\ Count(trail, "fit") = 0
           /\ Count(trail, "move") = 0
           /\ delays = <<>> /\ errors = <<>>
           /\ zero = <<0, 0>>

\* gave up after sweeps that moved the actuator
C6_Witness ==
    /\ outcome = "Exception_exhausted" /\ pc = "done"
    /\ nRetestFail = 3 /\ Len(optRet) = 2 /\ nMoves > 6

FitErrors == {"ValueError_gradient", "ValueError_range", "ValueError_negative"}

TrailShape ==
    \E a \in 1 .. 3 : \E t \in 0 .. 3 :
        trail = <<"check_signals", "check_motor">> \o [j \in 1 .. a |-> "attempt"]
                    \o SubSeq(<<"scan", "fit", "move">>, 1, t)

\* C8: auto_overlap takes its steps in the order health checks, attempts, one
\* scan, one estimation, one final move.  The final move is made only when
\* the estimator returned a value, goes to that value and is the last motor
\* command; when the estimator raises, its error ends the call and the last
\* motor command stays the last step of the scan.
C8_StepOrder ==
    entry = "auto_overlap" =>
        /\ TrailShape
        /\ (pc = "done" /\ outcome = "returned") <=> Count(trail, "move") = 1
        /\ pc = "final" <=> (Count(trail, "fit") = 1 /\ Count(trail, "move") = 0
                                /\ outcome = "none")
        /\ outcome \in FitErrors => pc = "done" /\ trail[Len(trail)] = "fit"
        /\ Count(trail, "fit") = 1 =>
            LET r == _find_zero_error(delays, errors)
            IN  IF r.kind = "value"
                THEN /\ zero = r.zero
                     /\ pc \in {"final", "done"}
                     /\ pc = "done" =>
                            /\ outcome = "returned"
                            /\ lastCmd = [kind |-> "mv", arg |-> r.zero]
                            /\ pos = r.zero
                ELSE /\ pc = "done"
                     /\ outcome = r.kind
                     /\ lastCmd = [kind |-> "mvr", arg |-> Q(fine_step)]
                     /\ pos = RAdd(delays[Len(delays)], Q(fine_step))

\* the final move went to an estimate between two scanned delays
C8_Witness ==
    /\ entry = "auto_overlap" /\ pc = "done" /\ outcome = "returned"
    /\ trail[Len(trail)] = "move"
    /\ lastCmd = [kind |-> "mv", arg |-> zero]
    /\ IsFinite(zero) /\ zero # scan_end /\ Len(delays) >= 2

\* C9: from the moment auto_overlap is called strictly inside (low, high),
\* the actuator stays within [low, high].
C9_AutoStaysInRange ==
    (entry = "auto_overlap" /\ Inside(pos0))
        => RLe(Q(low), pos) /\ RLe(pos, Q(high))

\* C10: on an exactly linear curve k * (delay - d0), k # 0, of two points or
\* more, with d0 >= 0 strictly between the first and the last delay,
\* _find_zero_error returns d0.
C10_LinearCurveZero ==
    (/\ est.kind = "result"
     /\ est.k # 0
     /\ Len(est.delays) >= 2
     /\ RLt(est.delays[1], Q(est.d0))
     /\ RLt(Q(est.d0), est.delays[Len(est.delays)])
     /\ est.d0 >= 0)
        => est.res.kind = "value" /\ est.res.zero = Q(est.d0)

\* a falling line through a zero that is not one of the sampled delays
C10_Witness ==
    /\ est.kind = "result"
    /\ est.k < 0
    /\ Len(est.delays) = MaxCurve
    /\ est.d0 > 0
    /\ RLt(est.delays[1], Q(est.d0))
    /\ RLt(Q(est.d0), est.delays[Len(est.delays)])
    /\ \A j \in DOMAIN est.delays : est.delays[j] # Q(est.d0)
    /\ est.res.kind = "value" /\ est.res.zero = Q(est.d0)

\* the estimate _find_zero_error computed lies outside the measured span
EstOutside ==
    \/ RLt(est.res.zero, est.delays[1])
    \/ RGt(est.res.zero, est.delays[Len(est.delays)])

EstDone == est.kind = "result" /\ Len(est.delays) >= 2

\* C11: whenever the estimate is below delays[0] or above delays[-1],
\* _find_zero_error raises the out-of-range error, and every value it returns
\* lies within [delays[0], delays[-1]].
C11_ReturnedWithinSpan ==
    EstDone =>
        /\ EstOutside => est.res.kind = "ValueError_range"
        /\ est.res.kind = "value"
            => /\ RLe(est.delays[1], est.res.zero)
               /\ RLe(est.res.zero, est.delays[Len(est.delays)])

\* C12 as stated: whenever the estimate is negative, _find_zero_error fails
\* with the negative-estimate error, and it never returns a negative value.
C12_NegativeRaisesNegative ==
    EstDone =>
        /\ RLt(est.res.zero, Q(0)) => est.res.kind = "ValueError_negative"
        /\ est.res.kind = "value" => ~RLt(est.res.zero, Q(0))

\* C12 as amended: whenever the estimate is negative, _find_zero_error fails,
\* with the out-of-range error when the estimate lies outside
\* [delays[0], delays[-1]] and with the negative-estimate error otherwise; it
\* never returns a negative value.
C12_NegativeNeverReturned ==
    EstDone =>
        /\ RLt(est.res.zero, Q(0))
            => est.res.kind = IF EstOutside THEN "ValueError_range"
                              ELSE "ValueError_negative"
        /\ est.res.kind = "value" => ~RLt(est.res.zero, Q(0))

\* a negative estimate inside a span that begins below zero
C12_Witness ==
    /\ EstDone
    /\ est.k # 0 /\ est.d0 = -1
    /\ est.res.zero = Q(-1)
    /\ RLt(est.delays[1], Q(-1))
    /\ est.res.kind = "ValueError_negative"

\* the integrated error the error channel gives with the actuator at p
ErrorAt(p) ==
    _integrate_error(_average_signal([k \in 1 .. navg |-> ErrReading(p)], navg,
                                     buffLen).val, nbaseline)

\* _measure_error has been entered
Scanning ==
    pc \in {"scan", "fit", "final"} \/ (pc = "done" /\ Count(trail, "scan") = 1)

\* what holds of the scan while it runs and once it has ended
ScanShape ==
    Scanning =>
        LET scan_start == RSub(scan_end, Q(2 * Unit))
        IN  /\ \A j \in DOMAIN delays :
                /\ delays[j] = RAdd(scan_start, Q((j - 1) * fine_step))
                /\ RLt(delays[j], scan_end)
            /\ \A j \in DOMAIN errors :
                j \in DOMAIN delays /\ errors[j] = ErrorAt(delays[j])
            /\ outcome # "ValueError_length" => Len(errors) = Len(delays)
            /\ pc = "scan" => pos = RAdd(scan_start, Q(Len(delays) * fine_step))
            /\ pc = "fit" =>
                /\ pos = RAdd(scan_start, Q(Len(delays) * fine_step))
                /\ RLe(scan_end, pos)
                /\ RLt(RSub(pos, Q(fine_step)), scan_end)
                /\ \A j \in DOMAIN delays : delays[j] # pos

\* C13: _measure_error first moves the actuator to start - 1 unit; the delays
\* it records begin there, increase by stepsize and are all below start + 1
\* unit; one integrated error is recorded per delay, taken at that delay; the
\* scan ends at the first position at or beyond start + 1 unit, which is not
\* recorded.
C13_ScanShape ==
    /\ [][pc = "measure" =>
            /\ pc' = "scan"
            /\ pos' = RSub(pos, Q(Unit))
            /\ lastCmd' = [kind |-> "mv", arg |-> RSub(pos, Q(Unit))]
            /\ scan_end' = RAdd(pos, Q(Unit))
            /\ delays' = <<>> /\ errors' = <<>>
            /\ nReads' = nReads]_vars
    /\ []ScanShape

\* a scan in single ticks has ended with the actuator on the end of the window
C13_Witness ==
    /\ pc = "fit"
    /\ fine_step = 1
    /\ Len(delays) = 2 * Unit /\ Len(errors) = 2 * Unit
    /\ pos = scan_end
    /\ errK # 0

\* _average_signal has been called on a source all of whose readings have at
\* least length samples
AvgDoneOnLongSource ==
    /\ avgCall.kind \in {"averaged", "tested"}
    /\ \A k \in 1 .. 2 : Len(avgCall.pattern[k]) >= avgCall.length

\* the call read the source n times and returned length elements, the i-th
\* being the sum (the mean times n) of the i-th samples of those n readings
AvgIsMean ==
    /\ avgCall.res.ok
    /\ avgCall.res.reads = avgCall.n
    /\ avgCall.nread = avgCall.first + avgCall.n
    /\ Len(avgCall.res.val) = avgCall.length
    /\ \A j \in 1 .. avgCall.length :
          avgCall.res.val[j]
              = SumSeq([k \in 1 .. avgCall.n |-> SrcReading(avgCall.first + k)[j]])

\* C14 as stated: on a source whose readings have M >= L samples, for N >= 1,
\* every call of _average_signal reads the source N times and returns L
\* elements, element i the mean of element i of the N readings.
C14_AverageOfLongReadings == AvgDoneOnLongSource => AvgIsMean

\* C14 as amended: the same for L >= 1.
C14_AverageOfLongReadingsPositive ==
    (AvgDoneOnLongSource /\ avgCall.length >= 1) => AvgIsMean

\* a repeated call has cut two different readings, one of them longer than L
C14_Witness ==
    /\ AvgDoneOnLongSource
    /\ avgCall.ncalls = MaxCalls
    /\ avgCall.n = MaxNavg
    /\ avgCall.length = WaveLen - 1
    /\ Len(avgCall.pattern[1]) = WaveLen /\ Len(avgCall.pattern[2]) = WaveLen + 1
    /\ avgCall.pattern[1][1] # avgCall.pattern[2][1]
    /\ AvgIsMean

\* the next step is an acquisition: _average_signal is about to be called
Acquiring ==
    \/ pc = "opt_fwd" /\ FwdGuard
    \/ pc = "opt_bwd" /\ BwdGuard
    \/ pc = "scan" /\ ScanGuard

\* the k-th reading of that acquisition has fewer samples than the useful length
ShortReading(k) ==
    Len(ReadAt(IF pc = "scan" THEN ErrReading(pos) ELSE MonReading(mon, pos), k))
        < buffLen

\* C15: an acquisition one of whose N readings is shorter than L stops at the
\* first such reading (no later reading is taken), delivers no mean (nothing
\* is returned or recorded as an error measurement) and ends the enclosing
\* call with the length-validation error, without a motor command; after
\* that error nothing more is done (no retry, no move).
C15_LengthErrorAborts ==
    /\ [][(Acquiring /\ \E k \in 1 .. navg : ShortReading(k)) =>
            /\ \E k \in 1 .. navg :
                  /\ ShortReading(k)
                  /\ \A h \in 1 .. (k - 1) : ~ShortReading(h)
                  /\ nReads' = nReads + k
            /\ pc' = "done"
            /\ outcome' = "ValueError_length"
            /\ UNCHANGED <<motVars, optRet, errors, i, zero>>]_vars
    /\ [][outcome # "ValueError_length"]_vars

\* the length error came in the middle of a sweep, at the first reading of an
\* acquisition of several
C15_Witness ==
    /\ pc = "done" /\ outcome = "ValueError_length"
    /\ glitch = 3 /\ nReads = 3 /\ navg > 1
    /\ nMoves >= 1 /\ lastCmd.kind = "mvr"
    /\ pos # motor_start

\* C16: _test_monitor passes exactly when some sample, hence the maximum, is
\* strictly greater than the threshold; a waveform whose maximum equals the
\* threshold fails.
C16_StrictlyAboveThreshold ==
    avgCall.kind = "tested" =>
        LET w == avgCall.res.val
        IN  /\ avgCall.pass <=> \E j \in DOMAIN w : w[j] > avgCall.threshold
            /\ ((\A j \in DOMAIN w : w[j] <= avgCall.threshold)
                    /\ (\E j \in DOMAIN w : w[j] = avgCall.threshold))
                => ~avgCall.pass

\* an average of several readings whose maximum is the threshold has failed
C16_Witness ==
    /\ avgCall.kind = "tested"
    /\ avgCall.n > 1
    /\ \A j \in DOMAIN avgCall.res.val : avgCall.res.val[j] <= avgCall.threshold
    /\ \E j \in DOMAIN avgCall.res.val : avgCall.res.val[j] = avgCall.threshold
    /\ ~avgCall.pass

\* the optimize_monitor call that ended last returned b
OptReturnedWith(b) == OptReturned /\ optRet[Len(optRet)] = b

\* the channel optimize_monitor works on passes with the actuator at p
PassesAt(p) == _test_monitor(AvgAt(mon, Tick(p)).val, Thr * navg)
PassesHere == PassesAt(pos)

\* C19: in optimize_monitor every relative move is followed by an average
\* tested at the new position, before any further motion and before False is
\* returned; in particular False is never returned after a relative move to a
\* position where the channel passes and that was not tested.
C19_PassingNeverSkipped ==
    OptReturnedWith(FALSE) => (fresh = <<>> \/ ~PassesAt(fresh[1]))

\* C20: when the average acquired in a sweep of optimize_monitor passes, the
\* call returns True in that step without a motor command, and the actuator
\* is left where that average was acquired.
C20_PassReturnsInPlace ==
    /\ [][(/\ pc \in {"opt_fwd", "opt_bwd"}
           /\ Acquiring
           /\ \A k \in 1 .. navg : ~ShortReading(k)
           /\ PassesHere)
            => /\ optRet' = Append(optRet, TRUE)
               /\ UNCHANGED motVars
               /\ pc' = IF entry = "optimize_monitor" THEN "done" ELSE "opt_ret"
               /\ entry = "optimize_monitor" => outcome' = "True"]_vars
    /\ [](OptReturnedWith(TRUE) => PassesHere /\ fresh = <<>>)

\* True was returned from the backward sweep, below the start
C20_Witness ==
    /\ entry = "optimize_monitor" /\ pc = "done" /\ outcome = "True"
    /\ nMoves >= 2
    /\ lastCmd = [kind |-> "mvr", arg |-> Q(-stepsize)]
    /\ RLt(pos, motor_start)
    /\ PassesHere

C18_RemoveOnlyOpens ==
    (slits.kind = "SlitsBase" /\ slits.last.op = "remove") =>
        /\ slits.last.cmd # <<>> =>
            /\ slits.last.cmd[1] >= slits.last.before[1]
            /\ slits.last.cmd[2] >= slits.last.before[2]
        /\ (/\ slits.last.size # <<>>
            /\ slits.last.size[1] <= Min2(slits.last.before[1], slits.last.before[2]))
            => slits.last.cmd = <<>> /\ slits.last.status = "finished"

\* the 0-based index of the steepest gradient of the curve handed in
EstCenter == ArgMax(Gradient2(est.errors))

\* C21: the window _find_zero_error fits is symmetric around the index c of
\* the steepest gradient: it is exactly the indices max(0, c - 3) ..
\* min(len - 1, c + 3) inclusive, for every curve length and every c.
C21_SymmetricWindow ==
    EstDone =>
        /\ est.res.start = (IF EstCenter - 3 > 0 THEN EstCenter - 3 ELSE 0)
        /\ est.res.end - 1 = (IF EstCenter + 3 < Len(est.errors) - 1
                              THEN EstCenter + 3 ELSE Len(est.errors) - 1)

\* auto_overlap stands between the two optimizations of an attempt and the
\* re-test of line 291
AtRetest == entry = "auto_overlap" /\ pc = "opt_ret" /\ Len(optRet) = 2

\* the k-th reading from now of channel m, unaveraged and whole, passes
RawPasses(m, k) == _test_monitor(ReadAt(MonReading(m, pos), k), Thr)

\* C22: in each attempt of auto_overlap the scan is entered exactly when the
\* two unaveraged readings taken after both optimizations, with the actuator
\* where the second optimization left it, both pass, whatever the two
\* optimizations returned; the scan is entered from nowhere else; when one of
\* them fails the attempt counter advances and the loop goes to its next
\* attempt (channel 0 again, from the same position), which after the third
\* attempt is the exhausted error.
C22_RetestAloneDecides ==
    /\ [][AtRetest =>
            /\ pc' = "measure" <=> (RawPasses(0, 1) /\ RawPasses(1, 2))
            /\ nReads' = nReads + 2
            /\ UNCHANGED motVars
            /\ pc' = "measure" => UNCHANGED <<i, optRet>>
            /\ pc' # "measure" =>
                /\ i' = i + 1
                /\ IF i + 1 < MaxTries
                   THEN /\ mon' = 0 /\ motor_start' = pos /\ optRet' = <<>>
                        /\ trail' = Append(trail, "attempt")
                        /\ pc' = "opt_fwd" \/ outcome' = "ValueError_outside"
                   ELSE pc' = "done" /\ outcome' = "Exception_exhausted"]_vars
    /\ [][(pc # "measure" /\ pc' = "measure") => AtRetest]_vars

\* the scan was entered after an attempt both of whose optimizations had
\* returned False
C22_Witness ==
    /\ entry = "auto_overlap" /\ pc = "measure"
    /\ optRet = <<FALSE, FALSE>>
    /\ nBuffReads >= 2
    /\ Acquirable /\ ~PassesAt(pos)

\* the motor commands one optimize_monitor call can issue: a step for every
\* stepsize between low and high in either direction, and the restore
OptMoveBound == 2 * ((high - low) \div stepsize + 1) + 1

\* the motor commands one auto_overlap call can issue: two optimizations in
\* each attempt, the move to the start of the scan, a step for every
\* fine_step of the scan window, and the final move
AutoMoveBound ==
    2 * MaxTries * OptMoveBound + 1 + ((2 * Unit) \div fine_step + 1) + 1

MovesBounded ==
    /\ entry = "optimize_monitor" => nMoves <= OptMoveBound
    /\ entry = "auto_overlap" => nMoves <= AutoMoveBound

\* a call is under way
Underway == pc \notin {"idle", "done"}

\* the width of the search range in ticks, and what one optimize_monitor call
\* can cost at most
RangeWidth == high - low
OptMax == 2 * RangeWidth + 3

\* the steps left in the sweeps of the optimization under way, at most
SweepRank ==
    IF pc = "opt_fwd" THEN (high - Tick(pos)) + RangeWidth + 2
    ELSE (Tick(pos) - low) + 1

\* the steps left from the scan on, at most
TailMax == 2 * Unit + 4

\* the steps left when k optimizations are still to be started, at most
Base(k) == TailMax + 1 + k * (OptMax + 2)

\* the optimizations auto_overlap may still start after the one of channel m
\* in attempt i
OptsAfter(m) == 2 * (MaxTries - 1 - i) + (1 - m)

\* a natural number that every step of a call makes smaller
Rank ==
    IF pc \in {"idle", "done"} THEN 0
    ELSE IF pc = "final" THEN 1
    ELSE IF pc = "fit" THEN 2
    ELSE IF pc = "scan"
    THEN 3 + (IF RLt(pos, scan_end) THEN Tick(scan_end) - Tick(pos) ELSE 0)
    ELSE IF pc = "measure" THEN TailMax
    ELSE IF pc = "opt_ret" THEN Base(OptsAfter(Len(optRet) - 1)) + 1
    ELSE IF entry = "optimize_monitor" THEN SweepRank
    ELSE Base(OptsAfter(mon)) + 1 + SweepRank

\* C23: every call of optimize_monitor and of auto_overlap ends (returns or
\* raises) after a bounded number of motor commands, whatever the waveforms
\* are: every step of a call under way (each of which is taken as soon as
\* the read or blocking move it waits for returns) makes a natural number
\* smaller, so no sweep or scan loop runs forever, and the motor commands
\* issued never exceed a bound fixed by low, high and the step sizes.
C23_Terminates ==
    /\ []MovesBounded
    /\ [](Rank >= 0 /\ (Underway => Rank > 0))
    /\ [][Underway => Rank' < Rank]_vars

\* auto_overlap has ended in the exhausted error after three attempts all of
\* whose sweeps ran to both ends of the range
C23_Witness ==
    /\ entry = "auto_overlap" /\ pc = "done"
    /\ outcome = "Exception_exhausted"
    /\ nMoves >= 2 * MaxTries * 3

\* the k-th reading from now of channel m has a sample above the threshold
\* among its first buffLen samples
PrefixPasses(m, k) ==
    LET r == ReadAt(MonReading(m, pos), k)
    IN  \E j \in DOMAIN r : j <= buffLen /\ r[j] > Thr

\* the next navg readings of the channel under optimization, summed sample by
\* sample, have a sample above navg thresholds among the first buffLen
PrefixAveragePasses ==
    \E j \in 1 .. buffLen :
        SumSeq([k \in 1 .. navg |-> ReadAt(MonReading(mon, pos), k)[j]]) > Thr * navg

\* C24: every threshold decision taken during auto_overlap, in a sweep of
\* optimize_monitor and in the re-test of an attempt, is the decision the
\* first L samples of the readings give, L the useful length: the samples
\* beyond L never make a monitor pass or fail.
C24_PaddingNeverDecides ==
    /\ [][(/\ entry = "auto_overlap"
           /\ pc \in {"opt_fwd", "opt_bwd"}
           /\ Acquiring
           /\ \A k \in 1 .. navg : ~ShortReading(k))
            => (optRet' = Append(optRet, TRUE) <=> PrefixAveragePasses)]_vars
    /\ [][AtRetest =>
            (pc' = "measure" <=> (PrefixPasses(0, 1) /\ PrefixPasses(1, 2)))]_vars

\* C25: whenever optimize_monitor has ended without success, by returning
\* False or by raising an error (the range error at entry, the length error of
\* an acquisition in the middle of a sweep), the actuator is at the position
\* it had when optimize_monitor was called.
C25_FailureRestores ==
    (OptEnded /\ ~OptReturnedWith(TRUE)) => pos = motor_start

Beckhoff == slits.kind = "BeckhoffSlits"

\* C26: a request (actuate set to 1 on a slit positioner) that finds
\* exec_queue at 0 sets it to 1 and schedules exactly one write of 1 to
\* exec_move; a request that finds exec_queue at 1 schedules none, so each
\* batch of requests gets one GO.
C26_OneGoPerBatch ==
    [][(Beckhoff /\ slits'.last.op = "actuate") =>
          /\ slits'.exec_queue = 1
          /\ slits'.actuate[slits'.last.p] = 1
          /\ slits'.pending =
                slits.pending + (IF slits.exec_queue = 0 THEN 1 ELSE 0)]_vars

\* two positioners have asked for a move in one batch, and one GO is waiting
C26_Witness ==
    /\ Beckhoff
    /\ slits.last.op = "actuate"
    /\ slits.actuate["xwidth"] = 1 /\ slits.actuate["ywidth"] = 1
    /\ slits.exec_queue = 1 /\ slits.pending = 1 /\ slits.exec_move = 0

\* nothing of a move is left: no GO, no queue, no started move
BeckhoffQuiet ==
    slits.exec_move = 0 /\ slits.exec_queue = 0 /\ ~slits._started_move

\* C27: whatever the order in which the scheduled write of exec_move and the
\* done_all callbacks run, when a started move is done (done_all goes from 0
\* to 1) exec_move and exec_queue are reset to 0 and _started_move to False,
\* they stay so until the next move request, and exec_move is never 1 while
\* _started_move is False.
C27_ResetAfterDone ==
    /\ [][(/\ Beckhoff /\ slits._started_move
           /\ slits.done_all = 0 /\ slits'.done_all = 1)
            => (slits'.exec_move = 0 /\ slits'.exec_queue = 0
                    /\ ~slits'._started_move)]_vars
    /\ [][(Beckhoff /\ BeckhoffQuiet /\ slits'.last.op # "actuate")
            => BeckhoffQuiet']_vars
    /\ [](Beckhoff => ~(slits.exec_move = 1 /\ ~slits._started_move))

\* C28: after every update of a blade done flag has been processed, done_all
\* is the logical AND of the four blade flags and the done signal of each of
\* the four slit positioners equals done_all; a positioner whose done goes
\* from 0 to 1 has its actuate reset to 0.
C28_DoneFanout ==
    /\ [](Beckhoff =>
            /\ slits.done_all = AllDone(slits)
            /\ slits.done_all = 1 <=> \A b \in Blades : slits.blade[b] = 1
            /\ \A p \in Positioners : slits.done[p] = slits.done_all)
    /\ [][Beckhoff =>
            \A p \in Positioners :
                (slits.done[p] = 0 /\ slits'.done[p] = 1)
                    => slits'.actuate[p] = 0]_vars

\* the last blade has come to rest with a requested move under way: done_all
\* and every positioner's done are 1 and the request has been cleared
C28_Witness ==
    /\ Beckhoff
    /\ slits.last.op = "dmov"
    /\ slits.last.requested["xwidth"] = 1 /\ slits.last.requested["ycenter"] = 1
    /\ slits.done_all = 1
    /\ \A p \in Positioners : slits.done[p] = 1 /\ slits.actuate[p] = 0
    /\ slits.exec_move = 0 /\ slits.exec_queue = 0 /\ slits.pending = 0
    /\ ~slits._started_move

====
